---- MODULE Spec2Model ----
(***************************************************************************)
(* Model of OlxParser (src/olx_parser.py): the pagination / collection     *)
(* loop get_cards, the card extractor prepare_card_data with its price     *)
(* normalisation, the link helpers get_url / is_url, check_data,           *)
(* write_results and handle.                                               *)
(*                                                                         *)
(* Python values are modelled as tagged records so that values of          *)
(* different Python types can be compared:                                 *)
(*   None            [t |-> "None"]                                        *)
(*   str             [t |-> "str", v |-> ...]                              *)
(*   int / float     [t |-> "int", ...] / [t |-> "float", ...]             *)
(*   bs4 Tag         [t |-> "Tag", ...]                                    *)
(* A text that the code parses (the price text) is a sequence of           *)
(* one-character strings; a URL string is kept in the split form that      *)
(* furl gives it (scheme, host, path, query arguments).                    *)
(***************************************************************************)
EXTENDS Integers, Sequences, FiniteSets, TLC

\* ------------------------------------------------------------------ bounds
\* largest target (goods_count) a run is started with
MaxGoods == 3
\* largest page number a run may request (the code has no cap)
MaxPages == 2
\* largest number of card nodes on one page
MaxCards == 2

\* ------------------------------------------------------- Python values
None == [t |-> "None"]

Str(s) == [t |-> "str", v |-> s]

\* a str that holds a URL, kept in the split form furl gives it
UrlStr(u) == [t |-> "str", url |-> u]

\* the params dict of get_url, as the sequence of its items
Params(items) == [t |-> "dict", items |-> items]

\* the int 0 assigned at line 139
IntZero == [t |-> "int", v |-> 0]

\* a float with value m / 10^e, e the number of decimals, no trailing zero
Float(m, e) == [t |-> "float", m |-> m, e |-> e]

\* an exception raised instead of a returned value
Raised(name) == [t |-> "raise", exc |-> name]

\* ------------------------------------------------------------- URLs
Url(scheme, host, path, args) ==
    [scheme |-> scheme, host |-> host, path |-> path, args |-> args]

\* furl(url=None) and furl(url="") : nothing set
EmptyUrl == Url("", "", "", <<>>)

BASE_URL == UrlStr(Url("https", "www.olx.pl", "", <<>>))

OFERTY_URL ==
    UrlStr(Url("https", "www.olx.pl", "/oferty/",
            << <<"search[order]", "created_at:desc">> >>))

\* furl(url=...) : the parsed form of a str, or of None
Furl(url) == IF url = None THEN EmptyUrl ELSE url.url

\* get_url: base, with the path replaced when a path is given and the
\* parameters appended to the query when parameters are given
get_url(base_url, path, params) ==
    LET f0 == Furl(base_url)
        f1 == IF path # None /\ Furl(path) # EmptyUrl
              THEN [f0 EXCEPT !.path = Furl(path).path]
              ELSE f0
        f2 == IF params # None /\ params.items # <<>>
              THEN [f1 EXCEPT !.args = f1.args \o params.items]
              ELSE f1
    IN  UrlStr(f2)

\* is_url returns furl(url).host, which the callers test for truth
is_url(url) == Furl(url).host

\* truth value of a host string
HostTruthy(h) == h # ""

\* --------------------------------------------------------------- texts
Digits == {"0", "1", "2", "3", "4", "5", "6", "7", "8", "9"}

DigitVal(c) ==
    CASE c = "0" -> 0 [] c = "1" -> 1 [] c = "2" -> 2 [] c = "3" -> 3
      [] c = "4" -> 4 [] c = "5" -> 5 [] c = "6" -> 6 [] c = "7" -> 7
      [] c = "8" -> 8 [] c = "9" -> 9

\* "l/" stands for the letter l with stroke of the currency suffix
CurrencySuffix == <<"z", "l/">>

\* str.replace(old, new) for a one-character old; new is a text
RECURSIVE Replace(_, _, _)
Replace(s, old, new) ==
    IF s = <<>> THEN <<>>
    ELSE (IF Head(s) = old THEN new ELSE <<Head(s)>>)
         \o Replace(Tail(s), old, new)

IsPrefix(p, s) ==
    /\ Len(p) <= Len(s)
    /\ \A i \in 1..Len(p) : s[i] = p[i]

\* str.split(sep)[0] : the text before the first occurrence of sep
RECURSIVE SplitFirst(_, _)
SplitFirst(s, sep) ==
    IF s = <<>> THEN <<>>
    ELSE IF IsPrefix(sep, s) THEN <<>>
    ELSE <<Head(s)>> \o SplitFirst(Tail(s), sep)

RECURSIVE DigitsValue(_)
DigitsValue(s) ==
    IF s = <<>> THEN 0
    ELSE DigitsValue(SubSeq(s, 1, Len(s) - 1)) * 10 + DigitVal(s[Len(s)])

RECURSIVE StripZeros(_)
StripZeros(s) ==
    IF s # <<>> /\ s[Len(s)] = "0"
    THEN StripZeros(SubSeq(s, 1, Len(s) - 1))
    ELSE s

\* float(text) for texts over digits, sign, decimal point and other
\* characters: [sign] digits [. digits], at least one digit, else ValueError
ParseFloat(s) ==
    LET signed == s # <<>> /\ Head(s) \in {"+", "-"}
        body   == IF signed THEN Tail(s) ELSE s
        dots   == {i \in 1..Len(body) : body[i] = "."}
        wellFormed ==
            /\ \A i \in 1..Len(body) : body[i] \in Digits \cup {"."}
            /\ Cardinality(dots) <= 1
            /\ \E i \in 1..Len(body) : body[i] \in Digits
        dot    == IF dots = {} THEN Len(body) + 1 ELSE CHOOSE i \in dots : TRUE
        whole  == SubSeq(body, 1, dot - 1)
        frac   == StripZeros(SubSeq(body, dot + 1, Len(body)))
        mag    == DigitsValue(whole \o frac)
    IN  IF ~wellFormed THEN Raised("ValueError")
        ELSE Float(IF signed /\ Head(s) = "-" THEN 0 - mag ELSE mag, Len(frac))

\* ------------------------------------------------------------ card nodes
\* a node that carries a text (h6, p, span)
TextTag(text) == [t |-> "Tag", text |-> text]

\* an anchor node with its href attribute (None when it has none)
ATag(href) == [t |-> "Tag", href |-> href]

\* an image node with its src attribute (None when it has none)
ImgTag(src) == [t |-> "Tag", src |-> src]

\* the name/price container with its heading and price nodes
DivTag(h6, p) == [t |-> "Tag", h6 |-> h6, p |-> p]

\* a card node: its id attribute and what find() gives for each selector
CardTag(id, a, img, div, span) ==
    [t |-> "Tag", id |-> id, a |-> a, img |-> img, div |-> div, span |-> span]

\* Tag.get_text()
get_text(tag) == Str(tag.text)

\* Tag.__eq__ with a str operand: a str has no name, attrs or contents
TagEqStr(tag, s) == FALSE

\* the literal compared with the price node at line 138
Zadarmo == <<"Z", "a", "d", "a", "r", "m", "o">>

\* the price expression of line 141
ParsePrice(text) ==
    ParseFloat(SplitFirst(Replace(Replace(text, " ", <<>>), ",", <<".">>),
                          CurrencySuffix))

\* the price branch, lines 137-141
PriceOf(price) ==
    IF price = None THEN None
    ELSE IF TagEqStr(price, Zadarmo) THEN IntZero
    ELSE ParsePrice(price.text)

\* the anchor branch without the rewrite of lines 121-122
CardUrlOf_as_is(a) == IF a = None THEN None ELSE a.href

\* the anchor branch, lines 118-122
CardUrlOf(a) ==
    IF a = None THEN None
    ELSE IF ~HostTruthy(is_url(a.href)) THEN get_url(BASE_URL, a.href, None)
    ELSE a.href

\* the image rule, lines 125-128: TRUE when the card is given up
ImgRejects(img) == img # None /\ ~HostTruthy(is_url(img.src))

prepare_card_data(c) ==
    IF ImgRejects(c.img) THEN None
    ELSE IF c.div = None THEN None
    ELSE LET price == PriceOf(c.div.p)
         IN  IF price.t = "raise" THEN price
             ELSE [t            |-> "dict",
                   card_id      |-> c.id,
                   card_url     |-> CardUrlOf(c.a),
                   img_url      |-> IF c.img = None THEN None ELSE c.img.src,
                   name         |-> IF c.div.h6 = None THEN None
                                    ELSE get_text(c.div.h6),
                   price        |-> price,
                   currency_unit |-> Str("zl/"),
                   state        |-> IF c.span = None THEN None
                                    ELSE get_text(c.span)]

\* ------------------------------------------------------- inputs: cards
RelLink == UrlStr(Url("", "", "/d/oferta/desk.html", <<>>))

AbsLink == UrlStr(Url("https", "www.olx.pl", "/d/oferta/lamp.html", <<>>))

RelImg == UrlStr(Url("", "", "/rel/path.jpg", <<>>))

AbsImg == UrlStr(Url("https", "img.cdn", "/pic.jpg", <<>>))

PriceFree == Zadarmo

PriceDecimal == <<"1", " ", "2", "0", "0", ",", "5", "0", " ", "z", "l/">>

PriceWhole == <<"3", "5", " ", "z", "l/">>

PriceMalformed == <<"a", "b", "c">>

PriceZero == <<"0", " ", "z", "l/">>

PriceTexts ==
    {PriceFree, PriceDecimal, PriceWhole, PriceMalformed, PriceZero, <<>>}

AllCards ==
    {CardTag(id, a, img, div, span) :
        id   \in {None, Str("card-1")},
        a    \in {None, ATag(None), ATag(RelLink), ATag(AbsLink)},
        img  \in {None, ImgTag(None), ImgTag(RelImg), ImgTag(AbsImg)},
        div  \in {None} \cup
                 {DivTag(h6, p) :
                     h6 \in {None, TextTag("Desk"), TextTag("")},
                     p  \in {None} \cup {TextTag(x) : x \in PriceTexts}},
        span \in {None, TextTag("Uzywane")}}

\* cards the collection loop is run on, one for each way a card can go
\* through lines 88-91: two cards that give different records, one for
\* which prepare_card_data returns None, one for which it raises
CardDesk ==
    CardTag(Str("card-1"), ATag(AbsLink), ImgTag(AbsImg),
            DivTag(TextTag("Desk"), TextTag(PriceDecimal)), TextTag("Uzywane"))

CardLamp ==
    CardTag(None, ATag(RelLink), None, DivTag(TextTag("Lamp"), None), None)

CardRelImg ==
    CardTag(Str("card-1"), ATag(AbsLink), ImgTag(RelImg),
            DivTag(TextTag("Desk"), TextTag(PriceWhole)), None)

CardFree ==
    CardTag(Str("card-1"), ATag(AbsLink), ImgTag(AbsImg),
            DivTag(TextTag("Desk"), TextTag(PriceFree)), None)

LoopCards == {CardDesk, CardLamp, CardRelImg, CardFree}

\* the non-empty results of findAll on a page
Pages == UNION {[1..n -> LoopCards] : n \in 1..MaxCards}

\* HTTPStatus.OK and a status that is not OK
StatusOK == 200

StatusCodes == {StatusOK, 500}

\* --------------------------------------------------------------- state
VARIABLES
    goods_count,    \* self.goods_count
    print_result,   \* self.print_result
    card_data,      \* self.card_data
    current_page,   \* get_cards: current_page
    cards,          \* get_cards: cards of the page being processed
    idx,            \* get_cards: position of the for loop in cards
    status_code,    \* get_cards: response.status_code, 0 before a response
    pc,             \* position of the run
    card,           \* the card last passed to prepare_card_data
    data,           \* what prepare_card_data returned for it
    outcome,        \* "Collecting", "Done" or "Aborted" (spec 4.5)
    exception,      \* the exception that ended the run, or None
    requests,       \* urls passed to requests.get, in order
    seen,           \* card nodes of the pages fetched, in order
    fetched,        \* the pages fetched, each the sequence of its card nodes
    extracted,      \* number of calls of prepare_card_data
    sink_calls,     \* number of calls of write_results
    files,          \* csv files written
    dir_exists,     \* the results folder exists
    log,            \* levels of the log records
    echoed          \* pprint was called by handle

vars == <<goods_count, print_result, card_data, current_page, cards, idx,
          status_code, pc,
          card, data, outcome, exception, requests, seen, fetched, extracted,
          sink_calls, files, dir_exists, log, echoed>>

\* what get_cards and handle leave alone when only extraction runs
loopVars == <<goods_count, print_result, card_data, current_page, cards, idx,
              status_code,
              outcome, exception, requests, seen, fetched, extracted, sink_calls,
              files, dir_exists, log, echoed>>

\* the state after OlxParser(goods_count, print_result), handle entered
Constructed ==
    /\ card_data = <<>>
    /\ current_page = 0
    /\ cards = <<>>
    /\ idx = 1
    /\ status_code = 0
    /\ data = None
    /\ outcome = "Collecting"
    /\ exception = None
    /\ requests = <<>>
    /\ seen = <<>>
    /\ fetched = <<>>
    /\ extracted = 0
    /\ sink_calls = 0
    /\ files = <<>>
    /\ dir_exists = FALSE
    /\ log = <<>>
    /\ echoed = FALSE

Init ==
    /\ goods_count \in 0..MaxGoods
    /\ print_result \in BOOLEAN
    /\ pc = "while"
    /\ card = None
    /\ Constructed

\* ------------------------------------------------------------ get_cards
\* the page parameter on every page, the first included
PageUrl_always(page) ==
    get_url(OFERTY_URL, None, Params(<< <<"page", page>> >>))

\* lines 70-73: the url of the page about to be requested
PageUrl(page) ==
    get_url(OFERTY_URL, None,
            IF page > 1 THEN Params(<< <<"page", page>> >>) ELSE None)

\* the loop condition stopping one record short of the target
LoopCondition_short == Len(card_data) + 1 < goods_count

\* the loop condition with <= in place of <
LoopCondition_le == Len(card_data) <= goods_count

\* line 68, the loop condition
LoopCondition == Len(card_data) < goods_count

\* lines 69-74, the part every iteration starts with
Request ==
    /\ pc = "while"
    /\ LoopCondition
    /\ current_page < MaxPages
    /\ current_page' = current_page + 1
    /\ requests' = Append(requests, PageUrl(current_page + 1))

\* the status test without its return: the loop goes on
FetchFailed_noreturn ==
    /\ Request
    /\ status_code' \in StatusCodes \ {StatusOK}
    /\ log' = Append(log, "ERROR")
    /\ pc' = "while"
    /\ UNCHANGED <<goods_count, print_result, card_data, cards, idx, card,
                   data, outcome, exception, seen, fetched, extracted, sink_calls,
                   files, dir_exists, echoed>>

\* lines 75-78: the status is not OK
FetchFailed ==
    /\ Request
    /\ status_code' \in StatusCodes \ {StatusOK}
    /\ log' = Append(log, "ERROR")
    /\ outcome' = "Aborted"
    /\ pc' = "returned"
    /\ UNCHANGED <<goods_count, print_result, card_data, cards, idx, card,
                   data, exception, seen, fetched, extracted, sink_calls, files,
                   dir_exists, echoed>>

\* the empty-page test without its return: the loop goes on
NoCards_noreturn ==
    /\ Request
    /\ status_code' = StatusOK
    /\ cards' = <<>>
    /\ log' = Append(log, "ERROR")
    /\ pc' = "while"
    /\ UNCHANGED <<goods_count, print_result, card_data, idx, card, data,
                   outcome, exception, seen, fetched, extracted, sink_calls, files,
                   dir_exists, echoed>>

\* lines 80-84: the page has no card node
NoCards ==
    /\ Request
    /\ status_code' = StatusOK
    /\ cards' = <<>>
    /\ log' = Append(log, "ERROR")
    /\ outcome' = "Aborted"
    /\ pc' = "returned"
    /\ UNCHANGED <<goods_count, print_result, card_data, idx, card,
                   data, exception, seen, fetched, extracted, sink_calls, files,
                   dir_exists, echoed>>

\* lines 80-85: the page has card nodes, the for loop starts
PageFetched ==
    /\ Request
    /\ status_code' = StatusOK
    /\ \E page \in Pages :
          /\ cards' = page
          /\ seen' = seen \o page
          /\ fetched' = Append(fetched, page)
    /\ idx' = 1
    /\ pc' = "for"
    /\ UNCHANGED <<goods_count, print_result, card_data, card, data, outcome,
                   exception, extracted, sink_calls, files, dir_exists, log,
                   echoed>>

\* a test for None in place of the truth value
Falsy_none_only(v) == v = None

\* check_data, lines 105-106: all(data.values()) is false
Falsy(v) ==
    \/ v = None
    \/ v.t = "str" /\ (IF "url" \in DOMAIN v THEN v.url = EmptyUrl
                       ELSE v.v = "")
    \/ v.t = "int" /\ v.v = 0
    \/ v.t = "float" /\ v.m = 0

DictValues(d) ==
    {d.card_id, d.card_url, d.img_url, d.name, d.price, d.currency_unit,
     d.state}

check_data(d) ==
    IF \E v \in DictValues(d) : Falsy(v) THEN <<"WARNING">> ELSE <<>>

\* the for loop without the test of line 86
TargetReached_never == FALSE

\* line 86, the test in front of every card
TargetReached == Len(card_data) = goods_count

\* the list replaced by the new record in place of append(data)
AppendRecord_reset(cd, d) == <<d>>

\* insert(0, data) in place of append(data)
AppendRecord_front(cd, d) == <<d>> \o cd

\* line 91, self.card_data.append(data)
AppendRecord(cd, d) == Append(cd, d)

\* lines 86-87: the target is reached, break
ForBreak ==
    /\ pc = "for"
    /\ idx <= Len(cards)
    /\ TargetReached
    /\ pc' = "while"
    /\ UNCHANGED <<goods_count, print_result, card_data, current_page, cards,
                   idx, status_code, card, data, outcome, exception, requests, seen, fetched,
                   extracted, sink_calls, files, dir_exists, log, echoed>>

\* the for body without the test of line 89: whatever comes back is kept
ForCard_keep_none ==
    /\ pc = "for"
    /\ idx <= Len(cards)
    /\ ~TargetReached
    /\ card' = cards[idx]
    /\ data' = prepare_card_data(cards[idx])
    /\ extracted' = extracted + 1
    /\ IF data'.t = "raise"
       THEN /\ exception' = Str(data'.exc)
            /\ pc' = "raised"
            /\ UNCHANGED <<card_data, idx, log>>
       ELSE /\ card_data' = AppendRecord(card_data, data')
            /\ log' = Append(log, "INFO")
            /\ idx' = idx + 1
            /\ UNCHANGED <<exception, pc>>
    /\ UNCHANGED <<goods_count, print_result, current_page, cards, status_code,
                   outcome, requests, seen, fetched, sink_calls, files, dir_exists,
                   echoed>>

\* lines 88-92: one card is extracted and, when a record comes back, kept
ForCard ==
    /\ pc = "for"
    /\ idx <= Len(cards)
    /\ ~TargetReached
    /\ card' = cards[idx]
    /\ data' = prepare_card_data(cards[idx])
    /\ extracted' = extracted + 1
    /\ IF data'.t = "raise"
       THEN /\ exception' = Str(data'.exc)
            /\ pc' = "raised"
            /\ UNCHANGED <<card_data, idx, log>>
       ELSE /\ IF data' # None
               THEN /\ card_data' = AppendRecord(card_data, data')
                    /\ log' = log \o check_data(data') \o <<"INFO">>
               ELSE UNCHANGED <<card_data, log>>
            /\ idx' = idx + 1
            /\ UNCHANGED <<exception, pc>>
    /\ UNCHANGED <<goods_count, print_result, current_page, cards, status_code,
                   outcome, requests, seen, fetched, sink_calls, files, dir_exists,
                   echoed>>

\* write_results indented into the while body: called after every page
ForEnd_write ==
    /\ pc = "for"
    /\ idx > Len(cards)
    /\ pc' = "write_results"
    /\ UNCHANGED <<goods_count, print_result, card_data, current_page, cards,
                   idx, status_code, card, data, outcome, exception, requests,
                   seen, fetched, extracted, sink_calls, files, dir_exists, log, echoed>>

\* line 85: the cards of the page are used up
ForEnd ==
    /\ pc = "for"
    /\ idx > Len(cards)
    /\ pc' = "while"
    /\ UNCHANGED <<goods_count, print_result, card_data, current_page, cards,
                   idx, status_code, card, data, outcome, exception, requests, seen, fetched,
                   extracted, sink_calls, files, dir_exists, log, echoed>>

\* lines 68 and 93: the loop condition fails, write_results is called
LoopExit ==
    /\ pc = "while"
    /\ ~LoopCondition
    /\ outcome' = "Done"
    /\ pc' = "write_results"
    /\ UNCHANGED <<goods_count, print_result, card_data, current_page, cards,
                   idx, status_code, card, data, exception, requests, seen, fetched, extracted,
                   sink_calls, files, dir_exists, log, echoed>>

\* -------------------------------------------------------- write_results
\* write_results with a fixed field list in place of self.card_data[0]
write_results_fixed_fields ==
    /\ pc = "write_results"
    /\ sink_calls' = sink_calls + 1
    /\ dir_exists' = TRUE
    /\ files' = Append(files, card_data)
    /\ log' = Append(log, "INFO")
    /\ pc' = "returned"
    /\ UNCHANGED <<goods_count, print_result, card_data, current_page, cards,
                   idx, status_code, card, data, outcome, exception, requests,
                   seen, fetched, extracted, echoed>>

\* lines 160-169; self.card_data[0] raises IndexError on an empty list
write_results ==
    /\ pc = "write_results"
    /\ sink_calls' = sink_calls + 1
    /\ dir_exists' = TRUE
    /\ IF card_data = <<>>
       THEN /\ exception' = Str("IndexError")
            /\ pc' = "raised"
            /\ UNCHANGED <<files, log>>
       ELSE /\ files' = Append(files, card_data)
            /\ log' = Append(log, "INFO")
            /\ pc' = "returned"
            /\ UNCHANGED exception
    /\ UNCHANGED <<goods_count, print_result, card_data, current_page, cards,
                   idx, status_code, card, data, outcome, requests, seen, fetched, extracted,
                   echoed>>

\* --------------------------------------------------------------- handle
\* the echo only after a run that wrote its file
handle_done_only ==
    /\ pc = "returned"
    /\ echoed' = (card_data # <<>> /\ print_result /\ outcome = "Done")
    /\ pc' = "exit"
    /\ UNCHANGED <<goods_count, print_result, card_data, current_page, cards,
                   idx, status_code, card, data, outcome, exception, requests,
                   seen, fetched, extracted, sink_calls, files, dir_exists,
                   log>>

\* lines 28-29, after get_cards has returned
handle ==
    /\ pc = "returned"
    /\ echoed' = (card_data # <<>> /\ print_result)
    /\ pc' = "exit"
    /\ UNCHANGED <<goods_count, print_result, card_data, current_page, cards,
                   idx, status_code, card, data, outcome, exception, requests, seen, fetched,
                   extracted, sink_calls, files, dir_exists, log>>

Next ==
    \/ FetchFailed
    \/ NoCards
    \/ PageFetched
    \/ ForBreak
    \/ ForCard
    \/ ForEnd
    \/ LoopExit
    \/ write_results
    \/ handle

Spec == Init /\ [][Next]_vars

\* ------------------------------------------------ extraction on its own
InitExtract ==
    /\ goods_count = 1
    /\ print_result = FALSE
    /\ pc = "extract"
    /\ Constructed
    /\ card \in AllCards

\* one call of prepare_card_data on a card node
Extract ==
    /\ pc = "extract"
    /\ data' = prepare_card_data(card)
    /\ pc' = "extracted"
    /\ UNCHANGED card
    /\ UNCHANGED loopVars

NextExtract == Extract

SpecExtract == InitExtract /\ [][NextExtract]_vars

\* ------------------------------------- the loop from a first page on
\* the state after the first page was fetched: its first card is any card,
\* a card that gives a record follows it, the target is two records
InitCard ==
    /\ goods_count = 2
    /\ print_result = FALSE
    /\ card_data = <<>>
    /\ current_page = 1
    /\ \E c \in AllCards : cards = <<c, CardLamp>>
    /\ idx = 1
    /\ status_code = StatusOK
    /\ pc = "for"
    /\ card = None
    /\ data = None
    /\ outcome = "Collecting"
    /\ exception = None
    /\ requests = <<PageUrl(1)>>
    /\ seen = cards
    /\ fetched = <<cards>>
    /\ extracted = 0
    /\ sink_calls = 0
    /\ files = <<>>
    /\ dir_exists = FALSE
    /\ log = <<>>
    /\ echoed = FALSE

SpecCard == InitCard /\ [][Next]_vars

\* ================================================================ claims
\* the response of the last request had a status that is not OK
StatusNotOK == status_code # 0 /\ status_code # StatusOK

\* the last request was answered OK with a page without card nodes
PageWithoutCards == status_code = StatusOK /\ cards = <<>>

\* the records prepare_card_data gives for a sequence of cards, in order
RECURSIVE RecordsOf(_)
RecordsOf(cs) ==
    IF cs = <<>> THEN <<>>
    ELSE LET r == prepare_card_data(Head(cs))
         IN  (IF r.t = "dict" THEN <<r>> ELSE <<>>) \o RecordsOf(Tail(cs))

Take(s, n) == SubSeq(s, 1, IF n < Len(s) THEN n ELSE Len(s))

\* C1: in every reachable state the result set holds at most goods_count
\* records.
C1_SizeAtMostTarget == Len(card_data) <= goods_count

\* the target is reached in the middle of a page
C1_Witness ==
    /\ goods_count >= 1
    /\ Len(card_data) = goods_count
    /\ pc = "for"
    /\ idx <= Len(cards)

\* C2: once a request is answered with a status that is not OK the run is
\* Aborted, and from then on no request is made, no card is extracted or
\* appended, write_results is not called and no file is written.
C2_FetchFailureAborts ==
    /\ [](StatusNotOK =>
            outcome = "Aborted" /\ sink_calls = 0 /\ files = <<>>)
    /\ [][StatusNotOK =>
            /\ requests' = requests
            /\ extracted' = extracted
            /\ card_data' = card_data
            /\ sink_calls' = 0
            /\ files' = <<>>]_vars

\* a failure on a later page, records of earlier pages collected, run over
C2_Witness ==
    /\ StatusNotOK
    /\ current_page > 1
    /\ card_data # <<>>
    /\ pc = "exit"

\* C3: a page answered OK without card nodes aborts the run the same way:
\* the step that meets it and every later step leave the result set as it
\* was, no later request is made and write_results is never called.
C3_NoCardsAborts ==
    /\ [](PageWithoutCards =>
            outcome = "Aborted" /\ sink_calls = 0 /\ files = <<>>)
    /\ [][PageWithoutCards' => card_data' = card_data]_vars
    /\ [][PageWithoutCards =>
            /\ requests' = requests
            /\ extracted' = extracted
            /\ sink_calls' = 0
            /\ files' = <<>>]_vars

\* an empty page after pages that gave records, run over
C3_Witness ==
    /\ PageWithoutCards
    /\ current_page > 1
    /\ card_data # <<>>
    /\ pc = "exit"

\* C4: no run ends through an uncaught exception.
C4_NoUncaughtException == pc # "raised"

\* C5: when the loop is over the result set is the sequence of the records
\* of the cards of the fetched pages, in the order the pages were fetched
\* and the cards stand on them, cut after goods_count records.
C5_EncounterOrder ==
    outcome \in {"Done", "Aborted"} =>
        card_data = Take(RecordsOf(seen), goods_count)

\* two pages, different records, a usable card cut off by the target
C5_Witness ==
    /\ outcome = "Done"
    /\ current_page = 2
    /\ Len(card_data) = 3
    /\ card_data[1] # card_data[2]
    /\ Len(RecordsOf(seen)) = 4

\* target 3, two pages of two usable cards each
TwoPagesOfTwoUsable ==
    /\ goods_count = 3
    /\ current_page = 2
    /\ Len(seen) = 4
    /\ Len(RecordsOf(seen)) = 4

\* C6: once the result set has goods_count records no card is passed to
\* prepare_card_data and no page is requested; with target 3 and two pages
\* of two usable cards the run collects 3 records from 3 extractions.
C6_StopAtTarget ==
    /\ [][Len(card_data) = goods_count =>
            extracted' = extracted /\ requests' = requests]_vars
    /\ [](TwoPagesOfTwoUsable =>
            /\ extracted <= 3
            /\ outcome = "Done" =>
                  Len(card_data) = 3 /\ extracted = 3 /\ Len(requests) = 2)

\* the example run, finished
C6_Witness ==
    /\ TwoPagesOfTwoUsable
    /\ outcome = "Done"
    /\ pc = "exit"
    /\ extracted = 3

\* C7: write_results is called at most once, only in a run that left the
\* loop with at least goods_count records, never in an Aborted run, and
\* after it was called nothing is appended and nothing is requested.
C7_SinkOnceAfterDone ==
    /\ [](/\ sink_calls <= 1
          /\ sink_calls = 1 =>
                outcome = "Done" /\ Len(card_data) >= goods_count
          /\ outcome = "Aborted" => sink_calls = 0)
    /\ [][sink_calls >= 1 =>
            card_data' = card_data /\ requests' = requests]_vars

\* the sink was called after records of two pages were collected
C7_Witness ==
    /\ sink_calls = 1
    /\ current_page >= 2
    /\ files # <<>>
    /\ pc = "exit"

\* C8: a run with target 0 makes no request, extracts nothing, keeps the
\* result set empty and writes no file: write_results ends on the empty
\* result set before it opens a file.
C8_TargetZero ==
    goods_count = 0 =>
        /\ requests = <<>>
        /\ extracted = 0
        /\ card_data = <<>>
        /\ files = <<>>
        /\ sink_calls >= 1 => pc = "raised"

\* the sink was called in a run with target 0
C8_Witness == goods_count = 0 /\ sink_calls = 1 /\ pc = "raised"

\* the card is not given up and has a price node with the "free" marker
FreeCard ==
    /\ ~ImgRejects(card.img)
    /\ card.div # None
    /\ card.div.p # None
    /\ card.div.p.text = Zadarmo

\* C9: for a card that is not skipped and whose price text is the "free"
\* marker, prepare_card_data returns a record with price 0.
C9_FreePriceIsZero ==
    (pc = "extracted" /\ FreeCard) =>
        data.t = "dict" /\ Falsy(data.price) /\ data.price # None

\* (a) an image node whose src exists and is not absolute
ImgSrcRelative ==
    card.img # None /\ card.img.src # None /\ ~HostTruthy(is_url(card.img.src))

\* C10: prepare_card_data returns None only for (a) an image node whose
\* src exists and is not absolute or (b) a missing name/price container;
\* otherwise it returns a record whose fields are absent exactly for the
\* missing parts, an absent price node giving an absent price.
C10_NoneOnlyForTwoCases ==
    pc = "extracted" =>
        IF ImgSrcRelative \/ card.div = None
        THEN data = None
        ELSE /\ data.t = "dict"
             /\ (data.card_id = None) = (card.id = None)
             /\ (data.card_url = None) = (card.a = None)
             /\ (data.img_url = None) = (card.img = None \/ card.img.src = None)
             /\ (data.name = None) = (card.div.h6 = None)
             /\ (data.price = None) = (card.div.p = None)
             /\ (data.state = None) = (card.span = None)

\* the last step passed a card to prepare_card_data and got None
Skipped == extracted' = extracted + 1 /\ data' = None

\* C11: a card for which prepare_card_data returns None is not appended,
\* leaves the result set as it was and does not end the run: the for loop
\* stays on the page, one card further, and the run is still collecting,
\* with no exception and no abort logged.
C11_SkipContinues ==
    [][Skipped =>
        /\ card_data' = card_data
        /\ pc' = "for"
        /\ idx' = idx + 1
        /\ outcome' = "Collecting"
        /\ exception' = None
        /\ log' = log]_vars

\* a card without the name/price container was skipped, the card after it
\* was kept and the next page was fetched
C11_Witness ==
    /\ seen # <<>>
    /\ seen[1].img = None
    /\ seen[1].div = None
    /\ Len(card_data) >= 1
    /\ current_page = 2
    /\ extracted >= 3

NumWarnings(l) == Cardinality({i \in DOMAIN l : l[i] = "WARNING"})

\* a field of the record is absent, empty, or a price of 0
HasFalsyField(d) ==
    \/ None \in {d.card_id, d.card_url, d.img_url, d.name, d.price, d.state}
    \/ d.name = Str("")
    \/ d.price.t = "int" /\ d.price.v = 0
    \/ d.price.t = "float" /\ d.price.m = 0

\* the last step passed a card to prepare_card_data and got a record
Produced == extracted' = extracted + 1 /\ data'.t = "dict"

\* C12: every record prepare_card_data returns is appended as it was
\* returned, whatever its fields, and the step logs a warning exactly when
\* a field of the record is absent, empty or a price of 0.
C12_CheckNeverBlocks ==
    [][Produced =>
        /\ card_data' = Append(card_data, data')
        /\ data' = prepare_card_data(card')
        /\ NumWarnings(log') =
              NumWarnings(log) + (IF HasFalsyField(data') THEN 1 ELSE 0)]_vars

\* a record whose only falsy field is a price of 0 was kept with a warning
C12_Witness ==
    /\ card_data # <<>>
    /\ card_data[1].price = Float(0, 0)
    /\ None \notin {card_data[1].card_id, card_data[1].card_url,
                    card_data[1].img_url, card_data[1].state}
    /\ card_data[1].name = Str("Desk")
    /\ log[1] = "WARNING"

\* a str that is a URL with a scheme and a host
IsAbsolute(u) == u # None /\ u.url.host # "" /\ u.url.scheme # ""

\* C15: in every record of the result set card_url is absent or absolute,
\* img_url is absent or absolute, and a relative link of the anchor is kept
\* as the path of card_url under the host of the site.
C15_UrlsAbsolute ==
    /\ \A i \in 1..Len(card_data) :
          /\ card_data[i].card_url = None \/ IsAbsolute(card_data[i].card_url)
          /\ card_data[i].img_url = None \/ IsAbsolute(card_data[i].img_url)
    /\ (/\ card # None
        /\ card.a # None
        /\ card.a.href = RelLink
        /\ data.t = "dict") =>
          data.card_url =
              UrlStr(Url("https", "www.olx.pl", "/d/oferta/desk.html", <<>>))

\* a record made from a card with a relative link and an absolute image
C15_Witness ==
    /\ card_data # <<>>
    /\ seen[1].a = ATag(RelLink)
    /\ seen[1].img = ImgTag(AbsImg)
    /\ IsAbsolute(card_data[1].card_url)
    /\ card_data[1].img_url = AbsImg
    /\ Len(card_data) = 2

\* the query of the url of page k: the order of the listing, and page = k
\* from the second page on
QueryOfPage(k) ==
    IF k = 1 THEN << <<"search[order]", "created_at:desc">> >>
    ELSE << <<"search[order]", "created_at:desc">>, <<"page", k>> >>

\* C13: the requests of a run are those of pages 1, 2, 3, ... in this
\* order, one request per page; the first carries no page parameter and
\* the k-th, k >= 2, carries page = k.
C13_PagesInOrder ==
    /\ Len(requests) = current_page
    /\ \A k \in 1..Len(requests) :
          /\ requests[k].url.host = "www.olx.pl"
          /\ requests[k].url.path = "/oferty/"
          /\ requests[k].url.args = QueryOfPage(k)

\* the second page was requested after the first gave cards
C13_Witness ==
    /\ Len(requests) = 2
    /\ Len(fetched) = 2
    /\ pc = "for"

\* every request so far was answered OK with at least one card node
EveryPageOKWithCards == ~StatusNotOK /\ ~PageWithoutCards

\* C14: as long as every page is answered OK with card nodes and the
\* result set is below the target the run is in Collecting, inside the
\* loop, about to extract a card or to request the next page.
C14_StaysCollecting ==
    (goods_count >= 1 /\ EveryPageOKWithCards
        /\ Len(card_data) < goods_count) =>
            outcome = "Collecting" /\ pc \in {"while", "for"}

\* C16: the result set is empty at the start and every step leaves it as
\* it is or adds one record at its end.
C16_GrowsMonotonically ==
    /\ card_data = <<>>
    /\ [][\/ card_data' = card_data
          \/ /\ Len(card_data') = Len(card_data) + 1
             /\ SubSeq(card_data', 1, Len(card_data)) = card_data]_vars

\* three records were appended one after the other and the run is over
C16_Witness ==
    /\ Len(card_data) = 3
    /\ extracted >= 4
    /\ pc = "exit"

\* C17: with a target of at least 1, whenever write_results is entered or
\* has run the result set holds exactly goods_count records.
C17_SinkGetsExactlyTarget ==
    (goods_count >= 1 /\ (pc = "write_results" \/ sink_calls >= 1)) =>
        Len(card_data) = goods_count

\* the file of a run with target 2 that left a usable card unprocessed
C17_Witness ==
    /\ goods_count = 2
    /\ sink_calls = 1
    /\ files = <<card_data>>
    /\ Len(RecordsOf(seen)) = 3

\* every page fetched has a card for which prepare_card_data gives a record
EveryPageUsable ==
    \A k \in 1..Len(fetched) :
        \E i \in 1..Len(fetched[k]) :
            prepare_card_data(fetched[k][i]).t = "dict"

\* C18: with a target T >= 1, every page answered OK and holding a card
\* that gives a record, the run requests at most T pages and ends in Done.
C18_DoneWithinTargetPages ==
    (goods_count >= 1 /\ EveryPageOKWithCards /\ EveryPageUsable) =>
        /\ current_page <= goods_count
        /\ pc \in {"exit", "raised"} => outcome = "Done"

\* C19: in an Aborted run the records of the pages before the failing one
\* are the result set, write_results was not called and no file exists;
\* when handle is over the result set was echoed exactly when it is not
\* empty and print_result is set.
C19_EchoAfterAbort ==
    /\ outcome = "Aborted" =>
          /\ card_data = RecordsOf(seen)
          /\ sink_calls = 0
          /\ files = <<>>
    /\ pc = "exit" => (echoed <=> (card_data # <<>> /\ print_result))

\* a run aborted on page 2 echoed the records of page 1
C19_Witness ==
    /\ outcome = "Aborted"
    /\ current_page = 2
    /\ echoed
    /\ files = <<>>
    /\ Len(card_data) >= 1

====
